---- MODULE Spec2Model ----
(***************************************************************************)
(* Semantic analysis of propositional-logic constructs                     *)
(* (propositions/semantics.py): the evaluator, the model enumerator, the   *)
(* classifiers, the DNF/CNF synthesizers and the inference-rule checks.    *)
(*                                                                         *)
(* A formula is a tuple: <<root>> for a variable or a constant,            *)
(* <<"~", first>> for a negation, <<root, first, second>> for a binary     *)
(* node.  A model (a Python dict, which keeps insertion order) is a        *)
(* sequence of <<name, value>> pairs with pairwise distinct names.         *)
(* A call's outcome is a record: Ret(v) for `return v`, NoneRet for a      *)
(* function that falls off its end, Raise(e) for an exception.             *)
(***************************************************************************)
EXTENDS Integers, Sequences, FiniteSets, TLC

VARIABLES op, formula, model, variable_names, values, rule, synth, result

vars == <<op, formula, model, variable_names, values, rule, synth, result>>

(***************************** bounds **************************************)

\* Largest number of operator nodes of an input formula (the formulas of the
\* docstrings, ExampleFormulas, are inputs whatever their size).
MaxOps == 1

\* Largest length of a variable list given to all_models and the synthesizers.
MaxVars == 2

\* How far the length of `values` may miss 2^len(variables), either way.
MaxSlack == 1

\* Largest number of assumptions of an input inference rule.
MaxAssumptions == 1

\* Variable names the input formulas and the evaluated models are built from.
FormulaNames == {"p", "q"}

\* Variable names the lists given to all_models and the synthesizers draw from.
ListNames == {"p", "q", "r"}

(*********************** outcomes of a call ********************************)

Ret(v) == [kind |-> "return", value |-> v]

NoneRet == [kind |-> "none", value |-> "None"]

Raise(e) == [kind |-> "raise", value |-> e]

Pending == [kind |-> "pending", value |-> "pending"]

NoFormula == <<>>

NoRule == [assumptions |-> <<>>, conclusion |-> NoFormula]

(******************** the syntax collaborator ******************************)

\* Names that satisfy the variable-name syntax, among the names in use.
is_variable(s) == s \in (FormulaNames \cup ListNames)

is_constant(s) == s \in {"T", "F"}

is_unary(s) == s = "~"

root(f) == f[1]

first(f) == f[2]

second(f) == f[3]

RECURSIVE formula_variables(_)
formula_variables(f) ==
    IF is_variable(root(f)) THEN {root(f)}
    ELSE IF is_constant(root(f)) THEN {}
    ELSE IF is_unary(root(f)) THEN formula_variables(first(f))
    ELSE formula_variables(first(f)) \cup formula_variables(second(f))

(***************************** dicts ***************************************)

keys(m) == [i \in 1..Len(m) |-> m[i][1]]

KeySet(m) == {m[i][1] : i \in 1..Len(m)}

Lookup(m, k) == m[CHOOSE i \in 1..Len(m) : m[i][1] = k][2]

\* m[k] = v: an existing key keeps its place, a new key goes last.
DictSet(m, k, v) ==
    IF k \in KeySet(m)
    THEN [i \in 1..Len(m) |-> IF m[i][1] = k THEN <<k, v>> ELSE m[i]]
    ELSE Append(m, <<k, v>>)

(************************** model utilities ********************************)

is_model(m) == \A k \in KeySet(m) : is_variable(k)

variables(m) == KeySet(m)

(***************************** evaluate ************************************)

\* The negation case returning its child's value unchanged.
evaluate_unary_dropped_not(v) == v

evaluate_unary(v) == ~v

evaluate_binary(r, left_val, right_val) ==
    IF r = "&" THEN left_val /\ right_val
    ELSE IF r = "|" THEN left_val \/ right_val
    ELSE IF r = "->" THEN (~left_val) \/ right_val
    ELSE left_val # right_val

RECURSIVE evaluate_value(_, _)
evaluate_value(f, m) ==
    IF is_variable(root(f)) THEN Lookup(m, root(f))
    ELSE IF is_constant(root(f)) THEN (IF root(f) = "T" THEN TRUE ELSE FALSE)
    ELSE IF is_unary(root(f)) THEN evaluate_unary(evaluate_value(first(f), m))
    ELSE evaluate_binary(root(f), evaluate_value(first(f), m),
                         evaluate_value(second(f), m))

evaluate(f, m) ==
    IF ~is_model(m) THEN Raise("AssertionError")
    ELSE IF ~(formula_variables(f) \subseteq variables(m)) THEN Raise("AssertionError")
    ELSE Ret(evaluate_value(f, m))

(**************************** all_models ***********************************)

RECURSIVE Pow2(_)
Pow2(n) == IF n = 0 THEN 1 ELSE 2 * Pow2(n - 1)

\* The shift one place too far: i >> (n - j) for i >> (n - j - 1).
shift_bit_off_by_one(i, k) == (i \div Pow2(k + 1)) % 2

\* (i >> k) & 1
shift_bit(i, k) == (i \div Pow2(k)) % 2

\* The dict built by the inner loop for index i, after the first j variables.
RECURSIVE build_model(_, _, _)
build_model(vs, i, j) ==
    IF j = 0 THEN <<>>
    ELSE DictSet(build_model(vs, i, j - 1), vs[j],
                 shift_bit(i, Len(vs) - (j - 1) - 1) = 1)

\* The models the generator yields, in order.
yielded_models(vs) == [k \in 1..Pow2(Len(vs)) |-> build_model(vs, k - 1, Len(vs))]

all_models(vs) ==
    IF \E j \in 1..Len(vs) : ~is_variable(vs[j]) THEN Raise("AssertionError")
    ELSE Ret(yielded_models(vs))

(**************************** truth_values *********************************)

truth_values(f, ms) ==
    IF \E i \in 1..Len(ms) : evaluate(f, ms[i]).kind = "raise"
    THEN Raise("AssertionError")
    ELSE Ret([i \in 1..Len(ms) |-> evaluate(f, ms[i]).value])

(***************************** classifiers *********************************)

\* The orders list(formula.variables()) may give: a set has no fixed order.
Orderings(S) ==
    {vs \in [1..Cardinality(S) -> S] : \A i, j \in 1..Cardinality(S) : vs[i] = vs[j] => i = j}

RECURSIVE tautology_loop(_, _, _)
tautology_loop(f, ms, i) ==
    IF i > Len(ms) THEN TRUE
    ELSE IF ~evaluate(f, ms[i]).value THEN FALSE
    ELSE tautology_loop(f, ms, i + 1)

is_tautology(f, vars_list) == Ret(tautology_loop(f, yielded_models(vars_list), 1))

RECURSIVE contradiction_loop(_, _, _)
contradiction_loop(f, ms, i) ==
    IF i > Len(ms) THEN TRUE
    ELSE IF evaluate(f, ms[i]).value THEN FALSE
    ELSE contradiction_loop(f, ms, i + 1)

\* The loop of is_tautology copied unchanged into is_contradiction.
is_contradiction_copied_test(f, vars_list) ==
    Ret(tautology_loop(f, yielded_models(vars_list), 1))

is_contradiction(f, vars_list) == Ret(contradiction_loop(f, yielded_models(vars_list), 1))

RECURSIVE satisfiable_loop(_, _, _)
satisfiable_loop(f, ms, i) ==
    IF i > Len(ms) THEN FALSE
    ELSE IF evaluate(f, ms[i]).value THEN TRUE
    ELSE satisfiable_loop(f, ms, i + 1)

is_satisfiable(f, vars_list) == Ret(satisfiable_loop(f, yielded_models(vars_list), 1))

(***************************** synthesizers ********************************)

Formula1(r) == <<r>>

Formula2(r, f) == <<r, f>>

Formula3(r, f, g) == <<r, f, g>>

model_literal(m, v) ==
    IF Lookup(m, v) THEN Formula1(v) ELSE Formula2("~", Formula1(v))

\* `result` of _synthesize_for_model after the first k keys.
RECURSIVE conjunctive_clause(_, _)
conjunctive_clause(m, k) ==
    IF k = 1 THEN model_literal(m, keys(m)[1])
    ELSE Formula3("&", conjunctive_clause(m, k - 1), model_literal(m, keys(m)[k]))

synthesize_for_model(m) ==
    IF ~is_model(m) \/ Len(keys(m)) = 0 THEN Raise("AssertionError")
    ELSE Ret(conjunctive_clause(m, Len(keys(m))))

\* `clauses` of synthesize after the first k models.
RECURSIVE dnf_clauses(_, _, _)
dnf_clauses(ms, vals_list, k) ==
    IF k = 0 THEN <<>>
    ELSE IF vals_list[k]
         THEN Append(dnf_clauses(ms, vals_list, k - 1), synthesize_for_model(ms[k]).value)
         ELSE dnf_clauses(ms, vals_list, k - 1)

\* The operands the wrong way round: Formula(r, c, result).
RECURSIVE join_swapped(_, _, _)
join_swapped(r, clauses, k) ==
    IF k = 1 THEN clauses[1]
    ELSE Formula3(r, clauses[k], join_swapped(r, clauses, k - 1))

\* result = clauses[0]; for c in clauses[1:]: result = Formula(r, result, c)
RECURSIVE join_left(_, _, _)
join_left(r, clauses, k) ==
    IF k = 1 THEN clauses[1]
    ELSE Formula3(r, join_left(r, clauses, k - 1), clauses[k])

dnf_sentinel == Formula3("&", Formula1("p"), Formula2("~", Formula1("p")))

synthesize(vs, vals) ==
    IF Len(vs) = 0 THEN Raise("AssertionError")
    ELSE IF all_models(vs).kind = "raise" THEN Raise("AssertionError")
    ELSE IF Len(vals) < Pow2(Len(vs)) THEN Raise("IndexError")
    ELSE LET clauses == dnf_clauses(yielded_models(vs), vals, Pow2(Len(vs)))
         IN  IF clauses = <<>> THEN Ret(dnf_sentinel)
             ELSE Ret(join_left("|", clauses, Len(clauses)))

except_model_literal(m, v) ==
    IF ~Lookup(m, v) THEN Formula1(v) ELSE Formula2("~", Formula1(v))

\* `r` of _synthesize_for_all_except_model after the first k keys.
RECURSIVE disjunctive_clause(_, _)
disjunctive_clause(m, k) ==
    IF k = 1 THEN except_model_literal(m, keys(m)[1])
    ELSE Formula3("|", disjunctive_clause(m, k - 1), except_model_literal(m, keys(m)[k]))

synthesize_for_all_except_model(m) ==
    IF ~is_model(m) \/ Len(keys(m)) = 0 THEN Raise("AssertionError")
    ELSE Ret(disjunctive_clause(m, Len(keys(m))))

\* `fs` of synthesize_cnf after the first k models.
RECURSIVE cnf_clauses(_, _, _)
cnf_clauses(ms, vs_list, k) ==
    IF k = 0 THEN <<>>
    ELSE IF ~vs_list[k]
         THEN Append(cnf_clauses(ms, vs_list, k - 1),
                     synthesize_for_all_except_model(ms[k]).value)
         ELSE cnf_clauses(ms, vs_list, k - 1)

cnf_sentinel == Formula3("|", Formula1("p"), Formula2("~", Formula1("p")))

synthesize_cnf(vs, vals) ==
    IF Len(vs) = 0 THEN Raise("AssertionError")
    ELSE IF all_models(vs).kind = "raise" THEN Raise("AssertionError")
    ELSE IF Len(vals) < Pow2(Len(vs)) THEN Raise("IndexError")
    ELSE LET fs == cnf_clauses(yielded_models(vs), vals, Pow2(Len(vs)))
         IN  IF fs = <<>> THEN Ret(cnf_sentinel)
             ELSE Ret(join_left("&", fs, Len(fs)))

(************************* inference-rule checks ***************************)

\* The body is the assertion alone: the function falls off its end.
evaluate_inference(r, m) ==
    IF ~is_model(m) THEN Raise("AssertionError") ELSE NoneRet

\* The body is the docstring alone.
is_sound_inference(r) == NoneRet

(******************************* inputs ************************************)

RECURSIVE FormulasWithOps(_)
FormulasWithOps(k) ==
    IF k = 0 THEN {Formula1(x) : x \in FormulaNames \cup {"T", "F"}}
    ELSE {Formula2("~", f) : f \in FormulasWithOps(k - 1)}
         \cup UNION {{Formula3(b, f, g) : b \in {"&", "|", "->", "<->"},
                                          f \in FormulasWithOps(i),
                                          g \in FormulasWithOps(k - 1 - i)}
                     : i \in 0..(k - 1)}

\* The formulas of the docstrings (q for q76), and the two shapes the
\* synthesizers return.
ExampleFormulas ==
    LET p == Formula1("p")
        q == Formula1("q")
        np == Formula2("~", p)
        nq == Formula2("~", q)
    IN  { Formula2("~", Formula3("&", p, q)),
          Formula3("|", p, np),
          Formula3("&", p, np),
          Formula3("|", Formula3("&", np, nq), Formula3("&", p, q)),
          Formula3("&", Formula3("|", p, nq), Formula3("|", np, q)),
          Formula3("<->", Formula3("->", p, q), Formula3("|", np, q)) }

Formulas == ExampleFormulas \cup UNION {FormulasWithOps(k) : k \in 0..MaxOps}

\* Duplicate-free lists of at most n names of S.
Lists(S, n) ==
    UNION {{vs \in [1..k -> S] : \A i, j \in 1..k : vs[i] = vs[j] => i = j} : k \in 0..n}

Range(s) == {s[i] : i \in 1..Len(s)}

\* Models over every subset of the formulas' names.
EvalModels == UNION {Range(yielded_models(vs)) : vs \in Lists(FormulaNames, Cardinality(FormulaNames))}

Max(a, b) == IF a > b THEN a ELSE b

ValueLists(n) ==
    UNION {[1..k -> BOOLEAN] : k \in Max(0, Pow2(n) - MaxSlack)..(Pow2(n) + MaxSlack)}

RuleFormulas == FormulasWithOps(0) \cup {Formula2("~", f) : f \in FormulasWithOps(0)}

Rules ==
    {[assumptions |-> a, conclusion |-> c] :
        a \in UNION {[1..k -> RuleFormulas] : k \in 0..MaxAssumptions},
        c \in FormulasWithOps(0) \cup FormulasWithOps(1)}

rule_variables(r) ==
    formula_variables(r.conclusion)
        \cup UNION {formula_variables(r.assumptions[i]) : i \in 1..Len(r.assumptions)}

(******************* calls on a formula: Spec ******************************)

Init ==
    /\ op = "init"
    /\ formula \in Formulas
    /\ model = <<>>
    /\ variable_names = <<>>
    /\ values = <<>>
    /\ rule = NoRule
    /\ synth = "none"
    /\ result = Pending

Evaluate ==
    /\ op = "init"
    /\ \E m \in EvalModels :
          /\ model' = m
          /\ result' = evaluate(formula, m)
    /\ op' = "evaluate"
    /\ UNCHANGED <<formula, variable_names, values, rule, synth>>

IsTautology ==
    /\ op = "init"
    /\ \E vars_list \in Orderings(formula_variables(formula)) :
          /\ variable_names' = vars_list
          /\ result' = is_tautology(formula, vars_list)
    /\ op' = "is_tautology"
    /\ UNCHANGED <<formula, model, values, rule, synth>>

IsContradiction ==
    /\ op = "init"
    /\ \E vars_list \in Orderings(formula_variables(formula)) :
          /\ variable_names' = vars_list
          /\ result' = is_contradiction(formula, vars_list)
    /\ op' = "is_contradiction"
    /\ UNCHANGED <<formula, model, values, rule, synth>>

IsSatisfiable ==
    /\ op = "init"
    /\ \E vars_list \in Orderings(formula_variables(formula)) :
          /\ variable_names' = vars_list
          /\ result' = is_satisfiable(formula, vars_list)
    /\ op' = "is_satisfiable"
    /\ UNCHANGED <<formula, model, values, rule, synth>>

Next == Evaluate \/ IsTautology \/ IsContradiction \/ IsSatisfiable

Spec == Init /\ [][Next]_vars

(************* calls on a variable list and a truth table: SpecSynth *******)

InitSynth ==
    /\ op = "init"
    /\ formula = NoFormula
    /\ model = <<>>
    /\ variable_names \in Lists(ListNames, MaxVars)
    /\ values \in ValueLists(Len(variable_names))
    /\ rule = NoRule
    /\ synth = "none"
    /\ result = Pending

AllModels ==
    /\ op = "init"
    /\ op' = "all_models"
    /\ result' = all_models(variable_names)
    /\ UNCHANGED <<formula, model, variable_names, values, rule, synth>>

Synthesize ==
    /\ op = "init"
    /\ op' = "synthesize"
    /\ result' = synthesize(variable_names, values)
    /\ formula' = IF result'.kind = "return" THEN result'.value ELSE NoFormula
    /\ synth' = "synthesize"
    /\ UNCHANGED <<model, variable_names, values, rule>>

SynthesizeCnf ==
    /\ op = "init"
    /\ op' = "synthesize_cnf"
    /\ result' = synthesize_cnf(variable_names, values)
    /\ formula' = IF result'.kind = "return" THEN result'.value ELSE NoFormula
    /\ synth' = "synthesize_cnf"
    /\ UNCHANGED <<model, variable_names, values, rule>>

\* truth_values(formula, all_models(variable_names)) on a synthesized formula.
TruthValues ==
    /\ op \in {"synthesize", "synthesize_cnf"}
    /\ formula # NoFormula
    /\ op' = "truth_values"
    /\ result' = truth_values(formula, all_models(variable_names).value)
    /\ UNCHANGED <<formula, model, variable_names, values, rule, synth>>

NextSynth == AllModels \/ Synthesize \/ SynthesizeCnf \/ TruthValues

SpecSynth == InitSynth /\ [][NextSynth]_vars

(**************** calls on an inference rule: SpecInfer ********************)

InitInfer ==
    /\ op = "init"
    /\ formula = NoFormula
    /\ model = <<>>
    /\ variable_names = <<>>
    /\ values = <<>>
    /\ rule \in Rules
    /\ synth = "none"
    /\ result = Pending

EvaluateInference ==
    /\ op = "init"
    /\ \E m \in EvalModels :
          /\ model' = m
          /\ result' = evaluate_inference(rule, m)
    /\ op' = "evaluate_inference"
    /\ UNCHANGED <<formula, variable_names, values, rule, synth>>

IsSoundInference ==
    /\ op = "init"
    /\ op' = "is_sound_inference"
    /\ result' = is_sound_inference(rule)
    /\ UNCHANGED <<formula, model, variable_names, values, rule, synth>>

NextInfer == EvaluateInference \/ IsSoundInference

SpecInfer == InitInfer /\ [][NextInfer]_vars

(***************************************************************************)
(*                               Claims                                    *)
(***************************************************************************)

\* The truth value of f under m by structural recursion, iff read as
\* "left equals right".
RECURSIVE TruthValue(_, _)
TruthValue(f, m) ==
    CASE f[1] = "T" -> TRUE
      [] f[1] = "F" -> FALSE
      [] f[1] = "~" -> ~TruthValue(f[2], m)
      [] f[1] = "&" -> TruthValue(f[2], m) /\ TruthValue(f[3], m)
      [] f[1] = "|" -> TruthValue(f[2], m) \/ TruthValue(f[3], m)
      [] f[1] = "->" -> (~TruthValue(f[2], m)) \/ TruthValue(f[3], m)
      [] f[1] = "<->" -> TruthValue(f[2], m) = TruthValue(f[3], m)
      [] OTHER -> Lookup(m, f[1])

\* C1: for every formula and every model over a superset of its variables,
\* evaluate returns the truth value given by structural recursion, a binary
\* node combining its children as and, or, implies, and iff = "left equals
\* right".
C1_EvaluateIsStructural ==
    (op = "evaluate" /\ formula_variables(formula) \subseteq KeySet(model))
        => (result.kind = "return" /\ result.value = TruthValue(formula, model))

\* Bit k of i, by halving i k times.
RECURSIVE BinaryDigit(_, _)
BinaryDigit(i, k) == IF k = 0 THEN i % 2 ELSE BinaryDigit(i \div 2, k - 1)

\* C2: over a duplicate-free list of n names all_models yields exactly 2^n
\* models, each a total assignment over exactly those names, pairwise
\* distinct, model i giving the variable at position j bit (n-1-j) of i; for
\* n = 0 it yields the empty mapping alone.
C2_AllModelsEnumerates ==
    op = "all_models" =>
        /\ result.kind = "return"
        /\ LET ms == result.value
               n == Len(variable_names)
           IN  /\ Len(ms) = 2 ^ n
               /\ \A i \in 1..Len(ms) :
                     /\ Len(ms[i]) = n
                     /\ \A j \in 1..n :
                           /\ ms[i][j][1] = variable_names[j]
                           /\ ms[i][j][2] = (BinaryDigit(i - 1, n - 1 - (j - 1)) = 1)
               /\ \A i, k \in 1..Len(ms) : ms[i] = ms[k] => i = k
               /\ n = 0 => ms = << <<>> >>

C2_Witness ==
    /\ op = "all_models"
    /\ variable_names = <<"q", "p">>
    /\ result.kind = "return"
    /\ result.value = << << <<"q", FALSE>>, <<"p", FALSE>> >>,
                         << <<"q", FALSE>>, <<"p", TRUE>> >>,
                         << <<"q", TRUE>>, <<"p", FALSE>> >>,
                         << <<"q", TRUE>>, <<"p", TRUE>> >> >>

WellFormedTable ==
    /\ Len(variable_names) > 0
    /\ Len(values) = 2 ^ Len(variable_names)

\* C3: DNF round trip: for any non-empty duplicate-free variable list (with
\* or without the name p) and any table of 2^n values, the truth values of
\* synthesize's formula over all_models of the list are the table itself,
\* with no precondition violation.
C3_DnfRoundTrip ==
    (op = "truth_values" /\ synth = "synthesize" /\ WellFormedTable)
        => (result.kind = "return" /\ result.value = values)

\* C4: CNF round trip: the same for synthesize_cnf, the all-true table
\* included.
C4_CnfRoundTrip ==
    (op = "truth_values" /\ synth = "synthesize_cnf" /\ WellFormedTable)
        => (result.kind = "return" /\ result.value = values)

C6_EvaluateInference ==
    (op = "evaluate_inference" /\ rule_variables(rule) \subseteq KeySet(model))
        => /\ result.kind = "return"
           /\ result.value =
                 (\/ \E i \in 1..Len(rule.assumptions) :
                        ~TruthValue(rule.assumptions[i], model)
                  \/ TruthValue(rule.conclusion, model))

\* C7: is_sound_inference returns false iff some model over the rule's
\* variables makes every assumption true and the conclusion false, and true
\* otherwise.
C7_IsSoundInference ==
    op = "is_sound_inference" =>
        /\ result.kind = "return"
        /\ \A vl \in Orderings(rule_variables(rule)) :
              result.value =
                 ~(\E m \in Range(yielded_models(vl)) :
                      /\ \A i \in 1..Len(rule.assumptions) :
                            TruthValue(rule.assumptions[i], m)
                      /\ ~TruthValue(rule.conclusion, m))

\* C8: synthesize and synthesize_cnf reject an empty variable list, and a
\* table shorter or longer than 2^len(variables), and return no formula.
C8_RejectsMalformed ==
    (op \in {"synthesize", "synthesize_cnf"} /\ ~WellFormedTable)
        => (result.kind = "raise" /\ formula = NoFormula)

RECURSIVE LeftNested(_, _)
LeftNested(r, s) ==
    IF Len(s) = 1 THEN s[1]
    ELSE <<r, LeftNested(r, SubSeq(s, 1, Len(s) - 1)), s[Len(s)]>>

\* The literal of variable v in the clause of a model giving it bit b.
Literal(v, b) == IF b = 1 THEN <<v>> ELSE <<"~", <<v>>>>

\* The conjunctive clause the claim gives for index i of the enumeration.
ClauseOfIndex(vs, i) ==
    LeftNested("&", [j \in 1..Len(vs) |-> Literal(vs[j], BinaryDigit(i, Len(vs) - j))])

\* The indices whose value is true, in increasing order.
TrueIndices(vals) ==
    SelectSeq([k \in 1..Len(vals) |-> k - 1], LAMBDA i : vals[i + 1])

\* C10: with some value true, synthesize returns the left-nested disjunction
\* of one clause per true index, in increasing index order, each clause the
\* left-nested conjunction over the variables in the given order, bare where
\* the model gives true and negated where it gives false; with no value true,
\* a variable conjoined with its own negation.
C10_DnfShape ==
    (op = "synthesize" /\ WellFormedTable) =>
        /\ result.kind = "return"
        /\ LET idx == TrueIndices(values)
           IN  IF idx = <<>>
               THEN \E v \in FormulaNames \cup ListNames :
                       result.value = <<"&", <<v>>, <<"~", <<v>>>>>>
               ELSE result.value =
                       LeftNested("|", [k \in 1..Len(idx) |->
                                           ClauseOfIndex(variable_names, idx[k])])

C10_Witness ==
    /\ op = "synthesize"
    /\ variable_names = <<"p", "q">>
    /\ values = <<TRUE, TRUE, TRUE, FALSE>>
    /\ result.kind = "return"
    /\ result.value =
          <<"|", <<"|", <<"&", <<"~", <<"p">>>>, <<"~", <<"q">>>>>>,
                        <<"&", <<"~", <<"p">>>>, <<"q">>>>>>,
                 <<"&", <<"p">>, <<"~", <<"q">>>>>>>>

====
